---- MODULE Spec2Model ----
(***************************************************************************)
(* Model of the multi-modal search service of rag_graph:                   *)
(*   - rrf_fuse               (backend/app/services/reranker.py)           *)
(*   - the /search handler    (backend/app/api/search.py)                  *)
(*   - the Milvus adapter     (backend/app/services/milvus_service_v2.py)  *)
(*   - the graph adapter      (backend/app/services/kg_service.py)         *)
(* Python floats are modelled as exact fractions <<num, den>> in lowest    *)
(* terms; Python's None is the string NoneVal; bytes are strings.          *)
(***************************************************************************)
EXTENDS Integers, Sequences, FiniteSets, TLC

\* ---------------------------------------------------------------- bounds
\* document identifiers are 1..MaxDoc
MaxDoc == 2
\* longest ranked list handed to rrf_fuse
MaxLen == 2
\* most ranked lists handed to rrf_fuse in one call
MaxLists == 2

\* documents stored in the vector index and the graph: 1..MaxStored
MaxStored == 1
\* most hits one backend query finds
MaxHits == 1
\* largest topk of a request
MaxTopK == 1

\* most documents handed to one insert_documents call
MaxBatch == 2
\* most documents the corpus statistics come to count
MaxCorpus == 4
\* most documents ingested while another thread scores
MaxShared == 2

\* default of rrf_fuse's parameter k
DefaultK == 60

\* MilvusService.dim_text, the width of the sparse vectors
DimText == 384

NoneVal == "None"

DocIds == 1..MaxDoc

SeqsUpTo(S, n) == UNION {[1..m -> S] : m \in 0..n}

\* ------------------------------------------------------------- fractions
RECURSIVE GCD(_, _)
GCD(a, b) == IF b = 0 THEN a ELSE GCD(b, a % b)

\* the fraction n/d (d > 0) in lowest terms
Frac(n, d) == LET g == GCD(n, d) IN <<n \div g, d \div g>>

Zero == <<0, 1>>

\* both are computed over the least common denominator
FAdd(x, y) ==
    LET g == GCD(x[2], y[2])
    IN  Frac(x[1] * (y[2] \div g) + y[1] * (x[2] \div g), (x[2] \div g) * y[2])

FLess(x, y) ==
    LET g == GCD(x[2], y[2])
    IN  x[1] * (y[2] \div g) < y[1] * (x[2] \div g)

\* ------------------------------------------------------------- rrf_fuse
\* position of doc_id among the keys of the dict `scores`, 0 when absent
KeyIndex(scores, doc_id) ==
    IF \E i \in 1..Len(scores) : scores[i][1] = doc_id
    THEN CHOOSE i \in 1..Len(scores) : scores[i][1] = doc_id
    ELSE 0

\* the same with ranks counted from 0, as enumerate(rl) without start=1 would
AccumulateFromZero(scores, doc_id, k, rank) ==
    LET i == KeyIndex(scores, doc_id)
        w == Frac(1, k + rank - 1)
    IN  IF i = 0
        THEN Append(scores, <<doc_id, FAdd(Zero, w)>>)
        ELSE [scores EXCEPT ![i] = <<doc_id, FAdd(scores[i][2], w)>>]

\* scores.setdefault(doc_id, 0.0); scores[doc_id] += 1.0 / (k + rank)
\* a dict keeps its keys in insertion order
Accumulate(scores, doc_id, k, rank) ==
    LET i == KeyIndex(scores, doc_id)
        w == Frac(1, k + rank)
    IN  IF i = 0
        THEN Append(scores, <<doc_id, FAdd(Zero, w)>>)
        ELSE [scores EXCEPT ![i] = <<doc_id, FAdd(scores[i][2], w)>>]

\* for rank, item in enumerate(rl, start=1)
RECURSIVE FuseList(_, _, _, _)
FuseList(scores, rl, rank, k) ==
    IF rank > Len(rl) THEN scores
    ELSE FuseList(Accumulate(scores, rl[rank][1], k, rank), rl, rank + 1, k)

\* for rl in ranked_lists
RECURSIVE FuseLists(_, _, _, _)
FuseLists(scores, ranked_lists, i, k) ==
    IF i > Len(ranked_lists) THEN scores
    ELSE FuseLists(FuseList(scores, ranked_lists[i], 1, k), ranked_lists, i + 1, k)

\* one insertion of a stable descending sort: x goes behind every element
\* whose score is not smaller than its own
InsertDesc(sorted, x) ==
    LET n == Cardinality({i \in 1..Len(sorted) : ~FLess(sorted[i][2], x[2])})
    IN  SubSeq(sorted, 1, n) \o <<x>> \o SubSeq(sorted, n + 1, Len(sorted))

\* sorted(scores.items(), key=lambda x: x[1], reverse=True): stable, equal
\* scores keep the order of the dict
RECURSIVE SortDesc(_, _, _)
SortDesc(items, i, acc) ==
    IF i > Len(items) THEN acc
    ELSE SortDesc(items, i + 1, InsertDesc(acc, items[i]))

rrf_fuse(ranked_lists, k) ==
    SortDesc(FuseLists(<<>>, ranked_lists, 1, k), 1, <<>>)

\* ------------------------------------------------------- the request
VectorMethods == {"fulltext", "semantic", "image"}

AllMethods == VectorMethods \cup {"kg", "fused"}

\* the comma separated pieces a `methods` form field is made of
TokenOrder == <<"fulltext", "semantic", "image", "kg", "fused", "bogus", " ">>

\* str.strip() on the pieces
Strip(t) == IF t = " " THEN "" ELSE t

\* a form field: absent (None) or a string, given as its pieces between commas
\* (the empty string is the one empty piece)
MethodFields ==
    {[given |-> FALSE, pieces |-> <<>>]} \cup
    {[given |-> TRUE,
      pieces |-> LET In(t) == t \in S
                     sel == SelectSeq(TokenOrder, In)
                 IN  IF sel = <<>> THEN <<"">> ELSE sel] :
        S \in SUBSET {TokenOrder[i] : i \in 1..Len(TokenOrder)}}

\* uploads: no file, an empty file, a file with content
Uploads == {NoneVal, "", "png"}

TopKs == -1..MaxTopK

\* Python truth value of None / bytes
Truthy(b) == b /= NoneVal /\ b /= ""

\* Python truth value of the methods string
NonEmptyField(m) == m.given /\ m.pieces /= <<"">>

\* requested = {m.strip() for m in methods.split(",") if m.strip()}, or all five
ParseMethods(m) ==
    IF NonEmptyField(m)
    THEN {Strip(m.pieces[i]) : i \in 1..Len(m.pieces)} \ {""}
    ELSE {"fulltext", "semantic", "image", "kg", "fused"}

\* lst[:n]
PySlice(lst, n) ==
    LET m == IF n >= 0 THEN (IF n < Len(lst) THEN n ELSE Len(lst))
                       ELSE (IF Len(lst) + n > 0 THEN Len(lst) + n ELSE 0)
    IN  SubSeq(lst, 1, m)

EmptyDict == [x \in {} |-> <<>>]

\* d.get(key, default)
Get(d, key, default) == IF key \in DOMAIN d THEN d[key] ELSE default

\* ------------------------------------------------------- the backends
StoredIds == 1..MaxStored

\* what a query of an index can find: stored documents, each at most once
IndexLists ==
    {l \in SeqsUpTo(StoredIds, MaxHits) :
        \A i, j \in 1..Len(l) : i /= j => l[i] /= l[j]}

\* coll.search(..., limit=topk): at most topk hits
LimitedLists(limit) == {l \in IndexLists : Len(l) <= limit}

\* the (doc_id, score, source) tuples a search method builds
SemanticHits(l) == [r \in 1..Len(l) |-> <<l[r], Len(l) + 1 - r, "semantic">>]

ImageHits(l) == [r \in 1..Len(l) |-> <<l[r], 0, "image">>]

FulltextHits(l) == [r \in 1..Len(l) |-> <<l[r], 1, "fulltext">>]

KgHits(l) == [r \in 1..Len(l) |-> <<l[r], 1, "kg">>]

\* asyncio.to_thread(fn, ...): a call that has not started yet
Task(fn, img) ==
    [fn |-> fn, img |-> img, st |-> "scheduled", step |-> "", res |-> <<>>]

\* ------------------------------------------------- texts and their tokens
\* a text is a sequence of characters; the texts documents and queries carry
Texts == {<<" ">>, <<"A">>, <<"a", " ", "A">>, <<"a", " ", "b">>}

\* str.lower on one character
Lower(c) == CASE c = "A" -> "a" [] c = "B" -> "b" [] OTHER -> c

\* whether the character matches \w
IsWord(c) == c \in {"a", "b", "A", "B"}

\* re.findall(r"\w+", text): the maximal runs of word characters from
\* position i on, `cur` being the run under way
RECURSIVE FindAll(_, _, _, _)
FindAll(text, i, cur, acc) ==
    LET closed == IF cur = <<>> THEN acc ELSE Append(acc, cur)
    IN  IF i > Len(text) THEN closed
        ELSE IF IsWord(text[i]) THEN FindAll(text, i + 1, Append(cur, text[i]), acc)
        ELSE FindAll(text, i + 1, <<>>, closed)

_tokenize(text) == FindAll([i \in 1..Len(text) |-> Lower(text[i])], 1, <<>>, <<>>)

\* set(tokens)
Unique(tokens) == {tokens[i] : i \in 1..Len(tokens)}

\* Counter(tokens).items(): (term, count) pairs in order of first occurrence
RECURSIVE CountFrom(_, _, _)
CountFrom(tokens, i, tf) ==
    IF i > Len(tokens) THEN tf
    ELSE LET p == KeyIndex(tf, tokens[i])
         IN  CountFrom(tokens, i + 1,
                 IF p = 0 THEN Append(tf, <<tokens[i], 1>>)
                 ELSE [tf EXCEPT ![p] = <<tokens[i], tf[p][2] + 1>>])

Counter(tokens) == CountFrom(tokens, 1, <<>>)

\* ------------------------------------------------- float arithmetic of BM25
\* a float is a fraction in lowest terms; ZeroDivision is what a division by
\* zero leaves, and every operation on it leaves it again
ZeroDivision == <<0, 0>>

IsZeroDivision(x) == x[2] = 0

Q(n) == <<n, 1>>

QNorm(n, d) ==
    IF d = 0 THEN ZeroDivision ELSE IF d < 0 THEN Frac(-n, -d) ELSE Frac(n, d)

QAdd(x, y) ==
    IF IsZeroDivision(x) \/ IsZeroDivision(y) THEN ZeroDivision
    ELSE QNorm(x[1] * y[2] + y[1] * x[2], x[2] * y[2])

QSub(x, y) == QAdd(x, <<-y[1], y[2]>>)

QMul(x, y) ==
    IF IsZeroDivision(x) \/ IsZeroDivision(y) THEN ZeroDivision
    ELSE QNorm(x[1] * y[1], x[2] * y[2])

QDiv(x, y) ==
    IF IsZeroDivision(x) \/ IsZeroDivision(y) THEN ZeroDivision
    ELSE QNorm(x[1] * y[2], x[2] * y[1])

QPositive(x) == ~IsZeroDivision(x) /\ x[1] > 0

Half == <<1, 2>>

\* defaults of bm25_sparse_vector's parameters k1 and b
K1 == <<6, 5>>

B == <<3, 4>>

\* ------------------------------------------------- bm25_sparse_vector
\* abs(hash(term)) % dim_text, hash being one fixed function of the string
CharCode(c) == IF c = "a" THEN 97 ELSE 98

RECURSIVE Hash(_, _, _)
Hash(term, i, h) ==
    IF i > Len(term) THEN h ELSE Hash(term, i + 1, (31 * h + CharCode(term[i])) % 65536)

TermIndex(term) == Hash(term, 1, 0) % DimText

\* avgdl of line 135
Avgdl(tdl, td, dl) == IF td > 0 THEN QDiv(Q(tdl), Q(td)) ELSE Q(dl)

\* the argument of math.log in line 141
IdfArg(td, df) == QAdd(QDiv(QAdd(Q(td - df), Half), QAdd(Q(df), Half)), Q(1))

\* the same without the test of avgdl
DenomUnguarded(freq, dl, avgdl) ==
    QAdd(Q(freq), QMul(K1, QAdd(QSub(Q(1), B), QMul(B, QDiv(Q(dl), avgdl)))))

\* denom of line 142
Denom(freq, dl, avgdl) ==
    IF QPositive(avgdl)
    THEN QAdd(Q(freq), QMul(K1, QAdd(QSub(Q(1), B), QMul(B, QDiv(Q(dl), avgdl)))))
    ELSE QAdd(Q(freq), K1)

\* score of line 143 as the pair (x, y) standing for log(x) * y
TermScore(freq, dl, avgdl, df, td) ==
    <<IdfArg(td, df), QDiv(QMul(Q(freq), QAdd(K1, Q(1))), Denom(freq, dl, avgdl))>>

\* whether computing that score raises: a division by zero, or math.log of
\* a number that is not positive
ScoreRaises(score) ==
    \/ IsZeroDivision(score[1]) \/ ~QPositive(score[1])
    \/ IsZeroDivision(score[2])

\* idx2val[idx] = idx2val.get(idx, 0.0) + score: the dict as a sequence of
\* (idx, summands) pairs in insertion order
AddScore(idx2val, idx, score) ==
    LET p == KeyIndex(idx2val, idx)
    IN  IF p = 0 THEN Append(idx2val, <<idx, <<score>>>>)
        ELSE [idx2val EXCEPT ![p] = <<idx, Append(idx2val[p][2], score)>>]

NoneResult == [kind |-> NoneVal, indices |-> <<>>, values |-> <<>>]

RaisedResult == [kind |-> "raised", indices |-> <<>>, values |-> <<>>]

\* lines 147-152
SparseVector(idx2val) ==
    IF idx2val = <<>> THEN NoneResult
    ELSE [kind |-> "dict",
          indices |-> [p \in 1..Len(idx2val) |-> idx2val[p][1]],
          values |-> [p \in 1..Len(idx2val) |-> idx2val[p][2]]]

\* the loop of lines 138-145 from item i on; "raised" once a score raises
RECURSIVE ScoreItems(_, _, _, _, _, _, _)
ScoreItems(items, i, idx2val, dl, avgdl, dfs, td) ==
    IF i > Len(items) THEN SparseVector(idx2val)
    ELSE LET score == TermScore(items[i][2], dl, avgdl, Get(dfs, items[i][1], 0), td)
         IN  IF ScoreRaises(score) THEN RaisedResult
             ELSE ScoreItems(items, i + 1,
                      AddScore(idx2val, TermIndex(items[i][1]), score),
                      dl, avgdl, dfs, td)

\* one whole call on statistics that do not change under it
bm25_sparse_vector(text, dfs, td, tdl) ==
    LET tokens == _tokenize(text)
    IN  IF tokens = <<>> \/ td = 0 THEN NoneResult
        ELSE ScoreItems(Counter(tokens), 1, <<>>, Len(tokens),
                        Avgdl(tdl, td, Len(tokens)), dfs, td)

\* ------------------------------------------------------------- variables
VARIABLES
    fuse_in, fuse_k, fuse_out, fuse_pc,   \* one call of rrf_fuse
    pc,            \* where the /search handler is
    requested,     \* the parsed method set
    image_bytes,   \* the bytes read from the upload, or None
    topk,
    tasks,         \* the calls handed to asyncio.gather, in order
    milvus_task,   \* position of the combined call in tasks, 0 for None
    kg_task,       \* position of the graph call in tasks, 0 for None
    resp,          \* the response dict
    conn,          \* milvus.conn is not None
    executed,      \* the backend searches that have run
    errors,        \* the backend operations that raised
    doc_freq,      \* MilvusService.doc_freq: term -> document frequency
    total_docs,    \* MilvusService.total_docs
    total_doc_len, \* MilvusService.total_doc_len
    coll_rows,     \* rows in the Milvus collection
    observed,      \* how often each text went through _update_corpus_stats
    ins_pc,        \* where the thread in insert_documents is
    ins_texts,     \* its local `texts`
    ins_i,         \* position of its loop over texts
    ins_terms,     \* the terms of `unique` its inner loop has yet to visit
    ins_vecs,      \* its local `sparse_vectors`
    rd_pc,         \* where the thread in bm25_sparse_vector is
    rd_text,       \* its argument `text`
    rd_avgdl,      \* its local `avgdl`
    rd_todo,       \* the items of `tf` its loop has yet to visit
    rd_idx2val,    \* its local `idx2val`
    rd_read,       \* the (df, total_docs) it read last
    rd_out         \* what its last call returned

fuseVars == <<fuse_in, fuse_k, fuse_out, fuse_pc>>

reqVars == <<pc, requested, image_bytes, topk, tasks, milvus_task, kg_task, resp>>

backendVars == <<conn, executed, errors>>

statVars == <<doc_freq, total_docs, total_doc_len>>

insVars == <<coll_rows, observed, ins_pc, ins_texts, ins_i, ins_terms, ins_vecs>>

rdVars == <<rd_pc, rd_text, rd_avgdl, rd_todo, rd_idx2val, rd_read, rd_out>>

corpusVars == <<statVars, insVars, rdVars>>

vars == <<fuseVars, reqVars, backendVars, corpusVars>>

\* ------------------------------------------------- the /search handler
\* order in which the individual calls are appended and read back
MethodOrder(m) == CASE m = "fulltext" -> 1 [] m = "semantic" -> 2 [] m = "image" -> 3

\* the same without the else: the individual calls are issued as well
VectorCallsToo(milvus_methods, img, tk) ==
    (IF Cardinality(milvus_methods) > 1
     THEN <<Task("multi_vector_search", img)>> ELSE <<>>)
    \o (IF "fulltext" \in milvus_methods
        THEN <<Task("search_fulltext", NoneVal)>> ELSE <<>>)
    \o (IF "semantic" \in milvus_methods
        THEN <<Task("search_semantic", NoneVal)>> ELSE <<>>)
    \o (IF "image" \in milvus_methods
        THEN <<Task("search_image", img)>> ELSE <<>>)

\* tasks.append(asyncio.to_thread(milvus....)): the vector calls of a request
VectorCalls(milvus_methods, img, tk) ==
    IF Cardinality(milvus_methods) > 1
    THEN <<Task("multi_vector_search", img)>>
    ELSE (IF "fulltext" \in milvus_methods
          THEN <<Task("search_fulltext", NoneVal)>> ELSE <<>>)
         \o (IF "semantic" \in milvus_methods
             THEN <<Task("search_semantic", NoneVal)>> ELSE <<>>)
         \o (IF "image" \in milvus_methods
             THEN <<Task("search_image", img)>> ELSE <<>>)

\* kg_task = asyncio.to_thread(kg.search_entities, query, topk)
GraphCalls(req) ==
    IF "kg" \in req THEN <<Task("search_entities", NoneVal)>> ELSE <<>>

\* the same with the combined result copied whole (resp.update(milvus_res))
MilvusEntriesWhole(req, milvus_methods, mt, results) ==
    IF mt /= 0
    THEN results[mt]
    ELSE [m \in milvus_methods |->
            results[1 + Cardinality({j \in milvus_methods :
                                        MethodOrder(j) < MethodOrder(m)})]]

\* the entries of resp filled from the vector calls
MilvusEntries(req, milvus_methods, mt, results) ==
    IF mt /= 0
    THEN [m \in VectorMethods \cap req |-> Get(results[mt], m, <<>>)]
    ELSE [m \in milvus_methods |->
            results[1 + Cardinality({j \in milvus_methods :
                                        MethodOrder(j) < MethodOrder(m)})]]

\* idx (counted from 0) once the vector results are read
NextIndex(milvus_methods, mt) ==
    IF mt /= 0 THEN 1 ELSE Cardinality(milvus_methods)

\* the same with idx advanced once more, past the result of the graph call
KgEntriesPast(kt, idx, results) ==
    IF kt /= 0
    THEN "kg" :> (IF idx + 1 < Len(results) THEN results[idx + 2] ELSE <<>>)
    ELSE EmptyDict

\* resp["kg"] = results[idx] if idx < len(results) else []
KgEntries(kt, idx, results) ==
    IF kt /= 0
    THEN "kg" :> (IF idx < Len(results) THEN results[idx + 1] ELSE <<>>)
    ELSE EmptyDict

\* the same over the raw result of the combined call, as search_v2 fuses
FusedEntriesRaw(req, r) ==
    IF "fused" \in req
    THEN "fused" :>
            (IF milvus_task /= 0 /\ tasks[milvus_task].st = "returned"
             THEN rrf_fuse(<<tasks[milvus_task].res["fulltext"],
                             tasks[milvus_task].res["semantic"],
                             tasks[milvus_task].res["image"],
                             Get(r, "kg", <<>>)>>, DefaultK)
             ELSE rrf_fuse(<<Get(r, "fulltext", <<>>), Get(r, "semantic", <<>>),
                             Get(r, "image", <<>>), Get(r, "kg", <<>>)>>, DefaultK))
    ELSE EmptyDict

\* resp["fused"] = rrf_fuse([fulltext_res, semantic_res, image_res, kg_res])
FusedEntries(req, r) ==
    IF "fused" \in req
    THEN "fused" :> rrf_fuse(<<Get(r, "fulltext", <<>>), Get(r, "semantic", <<>>),
                               Get(r, "image", <<>>), Get(r, "kg", <<>>)>>, DefaultK)
    ELSE EmptyDict

\* the code after the gather
Response(req, mt, kt, results) ==
    LET milvus_methods == VectorMethods \cap req
        r == MilvusEntries(req, milvus_methods, mt, results)
             @@ KgEntries(kt, NextIndex(milvus_methods, mt), results)
    IN  r @@ FusedEntries(req, r)

\* the handler up to `await asyncio.gather(*tasks)`; with no task it does
\* not suspend and runs to its return
Receive(methods, image, tk) ==
    /\ pc = "idle"
    /\ LET img == IF image /= NoneVal THEN image ELSE NoneVal
           req == ParseMethods(methods)
           milvus_methods == VectorMethods \cap req
           vcalls == VectorCalls(milvus_methods, img, tk)
           ts == vcalls \o GraphCalls(req)
           mt == IF Cardinality(milvus_methods) > 1 THEN 1 ELSE 0
           kt == IF "kg" \in req THEN Len(ts) ELSE 0
       IN  /\ image_bytes' = img
           /\ requested' = req
           /\ topk' = tk
           /\ tasks' = ts
           /\ milvus_task' = mt
           /\ kg_task' = kt
           /\ IF ts = <<>>
              THEN pc' = "done" /\ resp' = Response(req, mt, kt, <<>>)
              ELSE pc' = "awaiting" /\ resp' = resp
    /\ UNCHANGED <<fuseVars, backendVars, corpusVars>>

\* the same returning at the first call that has returned
\* (asyncio.wait(..., return_when=FIRST_COMPLETED))
GatheredFirst ==
    /\ pc = "awaiting"
    /\ \E i \in 1..Len(tasks) : tasks[i].st = "returned"
    /\ pc' = "done"
    /\ resp' = Response(requested, milvus_task, kg_task,
                        [i \in 1..Len(tasks) |->
                            IF tasks[i].st = "returned" THEN tasks[i].res
                            ELSE IF tasks[i].fn = "multi_vector_search"
                                 THEN EmptyDict ELSE <<>>])
    /\ UNCHANGED <<requested, image_bytes, topk, tasks, milvus_task, kg_task>>
    /\ UNCHANGED <<fuseVars, backendVars, corpusVars>>

\* the gather returns once every call has returned
Gathered ==
    /\ pc = "awaiting"
    /\ \A i \in 1..Len(tasks) : tasks[i].st = "returned"
    /\ pc' = "done"
    /\ resp' = Response(requested, milvus_task, kg_task,
                        [i \in 1..Len(tasks) |-> tasks[i].res])
    /\ UNCHANGED <<requested, image_bytes, topk, tasks, milvus_task, kg_task>>
    /\ UNCHANGED <<fuseVars, backendVars, corpusVars>>

\* the gather re-raises the first exception of a call; the other calls go on
GatherRaises ==
    /\ pc = "awaiting"
    /\ \E i \in 1..Len(tasks) : tasks[i].st = "raised"
    /\ pc' = "failed"
    /\ UNCHANGED <<requested, image_bytes, topk, tasks, milvus_task, kg_task, resp>>
    /\ UNCHANGED <<fuseVars, backendVars, corpusVars>>

\* the client goes away while the handler awaits: the calls not yet picked
\* up by a worker thread are dropped, a running thread is not interrupted
Cancel ==
    /\ pc = "awaiting"
    /\ pc' = "cancelled"
    /\ tasks' = [i \in 1..Len(tasks) |->
                    IF tasks[i].st = "scheduled"
                    THEN [tasks[i] EXCEPT !.st = "cancelled"]
                    ELSE tasks[i]]
    /\ UNCHANGED <<requested, image_bytes, topk, milvus_task, kg_task, resp>>
    /\ UNCHANGED <<fuseVars, backendVars, corpusVars>>

\* ------------------------------------------------- the worker threads
FirstStep(fn) ==
    CASE fn = "multi_vector_search" -> "semantic"
      [] fn = "search_fulltext" -> "fulltext"
      [] fn = "search_semantic" -> "semantic"
      [] fn = "search_image" -> "image"
      [] fn = "search_entities" -> "kg"

\* a worker thread picks the call up
StartCall(i) ==
    /\ tasks[i].st = "scheduled"
    /\ tasks' = [tasks EXCEPT ![i] =
                    [tasks[i] EXCEPT !.st = "running",
                                     !.step = FirstStep(tasks[i].fn)]]
    /\ UNCHANGED <<pc, requested, image_bytes, topk, milvus_task, kg_task, resp>>
    /\ UNCHANGED <<fuseVars, backendVars, corpusVars>>

\* the call, after one of its searches gave hits
AfterSearch(t, op, hits) ==
    IF t.fn = "multi_vector_search"
    THEN CASE op = "semantic" ->
                 IF Truthy(t.img)
                 THEN [t EXCEPT !.res = (op :> hits), !.step = "image"]
                 ELSE [t EXCEPT !.res = (op :> hits) @@ ("image" :> <<>>),
                                !.step = "fulltext"]
           [] op = "image" ->
                 [t EXCEPT !.res = t.res @@ (op :> hits), !.step = "fulltext"]
           [] op = "fulltext" ->
                 [t EXCEPT !.res = t.res @@ (op :> hits), !.step = "",
                           !.st = "returned"]
    ELSE [t EXCEPT !.res = hits, !.step = "", !.st = "returned"]

Returns(i, op, hits) ==
    /\ tasks' = [tasks EXCEPT ![i] = AfterSearch(@, op, hits)]
    /\ errors' = errors

\* the same with the exception caught and an empty list returned
RaisesCaught(i, err) ==
    /\ tasks' = [tasks EXCEPT ![i] = AfterSearch(tasks[i], tasks[i].step, <<>>)]
    /\ errors' = errors \cup {err}

\* an exception leaves the call
Raises(i, err) ==
    /\ tasks' = [tasks EXCEPT ![i] =
                    [tasks[i] EXCEPT !.st = "raised", !.step = "", !.res = <<>>]]
    /\ errors' = errors \cup {err}

\* self.connect() or Collection(...) raises before the search is sent
NoCollection(i) ==
    \/ /\ ~conn
       /\ Raises(i, "connect")
       /\ UNCHANGED <<conn, executed>>
    \/ /\ conn' = TRUE
       /\ Raises(i, "collection")
       /\ UNCHANGED executed

Running(i, op) ==
    /\ i \in 1..Len(tasks)
    /\ tasks[i].st = "running"
    /\ tasks[i].step = op

\* MilvusService.search_semantic
SearchSemantic(i) ==
    /\ Running(i, "semantic")
    /\ \/ NoCollection(i)
       \/ /\ conn' = TRUE
          /\ executed' = executed \cup {"semantic"}
          /\ \/ Raises(i, "semantic")
             \/ \E l \in LimitedLists(topk) : Returns(i, "semantic", SemanticHits(l))
    /\ UNCHANGED <<pc, requested, image_bytes, topk, milvus_task, kg_task, resp>>
    /\ UNCHANGED <<fuseVars, corpusVars>>

\* MilvusService.search_image
SearchImage(i) ==
    /\ Running(i, "image")
    /\ \/ NoCollection(i)
       \/ /\ conn' = TRUE
          /\ executed' = executed \cup {"image"}
          /\ \/ Raises(i, "image")
             \/ \E l \in LimitedLists(topk) : Returns(i, "image", ImageHits(l))
    /\ UNCHANGED <<pc, requested, image_bytes, topk, milvus_task, kg_task, resp>>
    /\ UNCHANGED <<fuseVars, corpusVars>>

\* what search_fulltext does when coll.query raises
QueryFailed(i) ==
    /\ tasks' = [tasks EXCEPT ![i] = AfterSearch(@, "fulltext", FulltextHits(PySlice(<<>>, topk)))]
    /\ errors' = errors \cup {"fulltext"}

\* MilvusService.search_fulltext
SearchFulltext(i) ==
    /\ Running(i, "fulltext")
    /\ \/ NoCollection(i)
       \/ /\ conn' = TRUE
          /\ executed' = executed \cup {"fulltext"}
          /\ \/ QueryFailed(i)
             \/ \E l \in IndexLists : Returns(i, "fulltext", FulltextHits(PySlice(l, topk)))
    /\ UNCHANGED <<pc, requested, image_bytes, topk, milvus_task, kg_task, resp>>
    /\ UNCHANGED <<fuseVars, corpusVars>>

\* KGService.search_entities, on the in-memory graph or on Neo4j
SearchEntities(i) ==
    /\ Running(i, "kg")
    /\ executed' = executed \cup {"kg"}
    /\ \/ Raises(i, "kg")
       \/ \E l \in IndexLists : Returns(i, "kg", KgHits(PySlice(l, topk)))
    /\ UNCHANGED <<pc, requested, image_bytes, topk, milvus_task, kg_task, resp, conn>>
    /\ UNCHANGED <<fuseVars, corpusVars>>

\* --------------------------------------------------- the specification
ReqIdle ==
    /\ pc = "idle"
    /\ requested = {}
    /\ image_bytes = NoneVal
    /\ topk = 0
    /\ tasks = <<>>
    /\ milvus_task = 0
    /\ kg_task = 0
    /\ resp = EmptyDict
    /\ conn = FALSE
    /\ executed = {}
    /\ errors = {}

\* ------------------------------------------------- insert_documents
\* a thread between two calls of insert_documents
Resting == {"idle", "returned", "raised"}

\* the batches of texts one call is given
Batches == UNION {[1..n -> Texts] : n \in 1..MaxBatch}

\* line 118 with an assignment of 1 in place of the increment
CountTermOnce(dfs, term) ==
    [t \in DOMAIN dfs \cup {term} |-> IF t = term THEN 1 ELSE dfs[t]]

\* self.doc_freq[term] = self.doc_freq.get(term, 0) + 1
CountTerm(dfs, term) ==
    [t \in DOMAIN dfs \cup {term} |-> IF t = term THEN Get(dfs, term, 0) + 1 ELSE dfs[t]]

\* line 120 counting the distinct tokens only
DocLenDistinct(tokens) == Cardinality(Unique(tokens))

\* len(tokens)
DocLen(tokens) == Len(tokens)

\* the call starts: connect, Collection and encode raise, or texts is bound
InsertDocuments(texts) ==
    /\ ins_pc \in Resting
    /\ total_docs + Len(texts) <= MaxCorpus
    /\ \/ /\ ins_pc' = "raised"
          /\ UNCHANGED <<ins_texts, ins_i>>
       \/ /\ ins_pc' = "text"
          /\ ins_texts' = texts
          /\ ins_i' = 1
    /\ UNCHANGED <<statVars, coll_rows, observed, ins_terms, ins_vecs>>
    /\ UNCHANGED <<fuseVars, reqVars, backendVars, rdVars>>

\* _update_corpus_stats, head of the loop over texts: a text without
\* tokens is counted at once, any other has its set of terms built
NextText ==
    /\ ins_pc = "text"
    /\ IF ins_i > Len(ins_texts)
       THEN /\ ins_pc' = "vectors"
            /\ UNCHANGED <<statVars, observed, ins_i, ins_terms>>
       ELSE IF _tokenize(ins_texts[ins_i]) = <<>>
       THEN /\ total_docs' = total_docs + 1
            /\ observed' = [observed EXCEPT ![ins_texts[ins_i]] = @ + 1]
            /\ ins_i' = ins_i + 1
            /\ UNCHANGED <<doc_freq, total_doc_len, ins_pc, ins_terms>>
       ELSE /\ ins_terms' = Unique(_tokenize(ins_texts[ins_i]))
            /\ ins_pc' = "terms"
            /\ UNCHANGED <<statVars, observed, ins_i>>
    /\ UNCHANGED <<coll_rows, ins_texts, ins_vecs>>
    /\ UNCHANGED <<fuseVars, reqVars, backendVars, rdVars>>

\* one round of `for term in unique`, the set being walked in any order
AddTerm ==
    /\ ins_pc = "terms"
    /\ \E term \in ins_terms :
          /\ doc_freq' = CountTerm(doc_freq, term)
          /\ ins_terms' = ins_terms \ {term}
          /\ ins_pc' = IF ins_terms = {term} THEN "count" ELSE "terms"
    /\ UNCHANGED <<total_docs, total_doc_len, coll_rows, observed, ins_texts, ins_i, ins_vecs>>
    /\ UNCHANGED <<fuseVars, reqVars, backendVars, rdVars>>

\* self.total_docs += 1
CountDoc ==
    /\ ins_pc = "count"
    /\ total_docs' = total_docs + 1
    /\ ins_pc' = "length"
    /\ UNCHANGED <<doc_freq, total_doc_len, coll_rows, observed, ins_texts, ins_i, ins_terms, ins_vecs>>
    /\ UNCHANGED <<fuseVars, reqVars, backendVars, rdVars>>

\* self.total_doc_len += len(tokens), which ends the round for this text
AddLength ==
    /\ ins_pc = "length"
    /\ total_doc_len' = total_doc_len + DocLen(_tokenize(ins_texts[ins_i]))
    /\ observed' = [observed EXCEPT ![ins_texts[ins_i]] = @ + 1]
    /\ ins_i' = ins_i + 1
    /\ ins_pc' = "text"
    /\ UNCHANGED <<doc_freq, total_docs, coll_rows, ins_texts, ins_terms, ins_vecs>>
    /\ UNCHANGED <<fuseVars, reqVars, backendVars, rdVars>>

\* sparse_vectors = [self.bm25_sparse_vector(t) for t in texts]
Vectors ==
    /\ ins_pc = "vectors"
    /\ LET vecs == [i \in 1..Len(ins_texts) |->
                       bm25_sparse_vector(ins_texts[i], doc_freq, total_docs, total_doc_len)]
       IN  IF \E i \in 1..Len(vecs) : vecs[i] = RaisedResult
           THEN /\ ins_pc' = "raised"
                /\ ins_texts' = <<>>
                /\ ins_i' = 0
                /\ UNCHANGED ins_vecs
           ELSE /\ ins_pc' = "insert"
                /\ ins_vecs' = vecs
                /\ UNCHANGED <<ins_texts, ins_i>>
    /\ UNCHANGED <<statVars, coll_rows, observed, ins_terms>>
    /\ UNCHANGED <<fuseVars, reqVars, backendVars, rdVars>>

\* coll.insert(entities) stores the rows
CollInsert ==
    /\ ins_pc = "insert"
    /\ coll_rows' = coll_rows + Len(ins_texts)
    /\ ins_pc' = "returned"
    /\ ins_texts' = <<>>
    /\ ins_i' = 0
    /\ ins_vecs' = <<>>
    /\ UNCHANGED <<statVars, observed, ins_terms>>
    /\ UNCHANGED <<fuseVars, reqVars, backendVars, rdVars>>

\* coll.insert(entities) raises
CollInsertRaises ==
    /\ ins_pc = "insert"
    /\ ins_pc' = "raised"
    /\ ins_texts' = <<>>
    /\ ins_i' = 0
    /\ ins_vecs' = <<>>
    /\ UNCHANGED <<statVars, coll_rows, observed, ins_terms>>
    /\ UNCHANGED <<fuseVars, reqVars, backendVars, rdVars>>

\* ------------------------------------------------- a thread that scores
\* bm25_sparse_vector called from another thread, lines 129-131
Score(text) ==
    /\ rd_pc = "idle"
    /\ rd_text' = text
    /\ rd_read' = <<0, 0>>
    /\ rd_out' = NoneResult
    /\ rd_pc' = IF _tokenize(text) = <<>> \/ total_docs = 0 THEN "returned" ELSE "avgdl"
    /\ UNCHANGED <<rd_avgdl, rd_todo, rd_idx2val>>
    /\ UNCHANGED <<fuseVars, reqVars, backendVars, statVars, insVars>>

\* lines 133-137
ReadAvgdl ==
    /\ rd_pc = "avgdl"
    /\ rd_avgdl' = Avgdl(total_doc_len, total_docs, Len(_tokenize(rd_text)))
    /\ rd_todo' = Counter(_tokenize(rd_text))
    /\ rd_idx2val' = <<>>
    /\ rd_pc' = "terms"
    /\ UNCHANGED <<rd_text, rd_read, rd_out>>
    /\ UNCHANGED <<fuseVars, reqVars, backendVars, statVars, insVars>>

\* one round of `for term, freq in tf.items()`
ScoreTerm ==
    /\ rd_pc = "terms"
    /\ rd_todo /= <<>>
    /\ LET term == rd_todo[1][1]
           df == Get(doc_freq, term, 0)
           score == TermScore(rd_todo[1][2], Len(_tokenize(rd_text)), rd_avgdl, df, total_docs)
       IN  /\ rd_read' = <<df, total_docs>>
           /\ IF ScoreRaises(score)
              THEN /\ rd_out' = RaisedResult
                   /\ rd_pc' = "returned"
                   /\ rd_todo' = <<>>
                   /\ rd_idx2val' = <<>>
              ELSE /\ rd_idx2val' = AddScore(rd_idx2val, TermIndex(term), score)
                   /\ rd_todo' = Tail(rd_todo)
                   /\ UNCHANGED <<rd_pc, rd_out>>
    /\ UNCHANGED <<rd_text, rd_avgdl>>
    /\ UNCHANGED <<fuseVars, reqVars, backendVars, statVars, insVars>>

\* lines 147-152
ScoreReturns ==
    /\ rd_pc = "terms"
    /\ rd_todo = <<>>
    /\ rd_out' = SparseVector(rd_idx2val)
    /\ rd_idx2val' = <<>>
    /\ rd_pc' = "returned"
    /\ UNCHANGED <<rd_text, rd_avgdl, rd_todo, rd_read>>
    /\ UNCHANGED <<fuseVars, reqVars, backendVars, statVars, insVars>>

\* the caller has the result, and the frame of the call is gone
ScoreDone ==
    /\ rd_pc = "returned"
    /\ rd_pc' = "idle"
    /\ rd_text' = <<>>
    /\ rd_avgdl' = Q(0)
    /\ rd_read' = <<0, 0>>
    /\ rd_out' = NoneResult
    /\ UNCHANGED <<rd_todo, rd_idx2val>>
    /\ UNCHANGED <<fuseVars, reqVars, backendVars, statVars, insVars>>

\* ------------------------------------------------- the service on its own
CorpusIdle ==
    /\ doc_freq = EmptyDict
    /\ total_docs = 0
    /\ total_doc_len = 0
    /\ coll_rows = 0
    /\ observed = [t \in Texts |-> 0]
    /\ ins_pc = "idle"
    /\ ins_texts = <<>>
    /\ ins_i = 0
    /\ ins_terms = {}
    /\ ins_vecs = <<>>
    /\ rd_pc = "idle"
    /\ rd_text = <<>>
    /\ rd_avgdl = Q(0)
    /\ rd_todo = <<>>
    /\ rd_idx2val = <<>>
    /\ rd_read = <<0, 0>>
    /\ rd_out = NoneResult

\* ------------------------------------------------- rrf_fuse on its own
\* raw score of the hit at position r of a list of n hits: "sorted" lists
\* are best-first, "unsorted" ones put the highest raw score last
ScoreProfiles == {"sorted", "unsorted"}

RawScore(profile, r, n) == IF profile = "sorted" THEN n + 1 - r ELSE r

\* a ranked list of (doc_id, score, source) tuples
HitList(ids, profile, source) ==
    [r \in 1..Len(ids) |-> <<ids[r], RawScore(profile, r, Len(ids)), source>>]

FuseInputs ==
    {[i \in 1..Len(ls) |-> HitList(ls[i], p, "semantic")] :
        ls \in SeqsUpTo(SeqsUpTo(DocIds, MaxLen), MaxLists), p \in ScoreProfiles}

Ks == {1, DefaultK}

FuseIdle ==
    /\ fuse_in = <<>>
    /\ fuse_k = DefaultK
    /\ fuse_out = <<>>
    /\ fuse_pc = "idle"

InitFuse ==
    /\ ReqIdle
    /\ CorpusIdle
    /\ fuse_in \in FuseInputs
    /\ fuse_k \in Ks
    /\ fuse_out = <<>>
    /\ fuse_pc = "call"

Fuse ==
    /\ fuse_pc = "call"
    /\ fuse_out' = rrf_fuse(fuse_in, fuse_k)
    /\ fuse_pc' = "return"
    /\ UNCHANGED <<fuse_in, fuse_k>>
    /\ UNCHANGED <<reqVars, backendVars, corpusVars>>

NextFuse == Fuse

SpecFuse == InitFuse /\ [][NextFuse]_vars

\* the places <<list, position>> at which document d stands in the lists
Places(lists, d) ==
    {p \in (1..Len(lists)) \X (1..MaxLen + 1) :
        p[2] <= Len(lists[p[1]]) /\ lists[p[1]][p[2]][1] = d}

\* the sum of 1/(k + r) over a set of places
RECURSIVE SumOfReciprocals(_, _)
SumOfReciprocals(P, k) ==
    IF P = {} THEN Zero
    ELSE LET p == CHOOSE q \in P : TRUE
         IN  FAdd(Frac(1, k + p[2]), SumOfReciprocals(P \ {p}, k))

\* the documents that stand somewhere in the lists
Occurring(lists) ==
    {lists[i][r][1] : <<i, r>> \in {p \in (1..Len(lists)) \X (1..MaxLen + 1) :
                                      p[2] <= Len(lists[p[1]])}}

\* the lists with every raw score replaced by 0
WithoutScores(lists) ==
    [i \in 1..Len(lists) |->
        [r \in 1..Len(lists[i]) |-> <<lists[i][r][1], 0, lists[i][r][3]>>]]

\* C10: rrf_fuse scores by rank position only: the fused score of a document
\* is the sum of 1/(k+r) over every place r it stands at in the lists as
\* given, raw scores play no part, every document that occurs is in the
\* output exactly once, and the output is in descending order of fused score
C10_RankOnly ==
    fuse_pc = "return" =>
        /\ \A d \in Occurring(fuse_in) :
              /\ Cardinality({j \in 1..Len(fuse_out) : fuse_out[j][1] = d}) = 1
              /\ \A j \in 1..Len(fuse_out) :
                    fuse_out[j][1] = d =>
                        fuse_out[j][2] = SumOfReciprocals(Places(fuse_in, d), fuse_k)
        /\ \A j \in 1..Len(fuse_out) : fuse_out[j][1] \in Occurring(fuse_in)
        /\ \A j \in 1..Len(fuse_out) - 1 : ~FLess(fuse_out[j][2], fuse_out[j + 1][2])
        /\ fuse_out = rrf_fuse(WithoutScores(fuse_in), fuse_k)

\* two lists, a document at different ranks of both, a second document, and
\* raw scores that rise down the list
C10_Witness ==
    /\ fuse_pc = "return"
    /\ Len(fuse_in) = 2
    /\ Len(fuse_in[1]) = 2 /\ Len(fuse_in[2]) = 2
    /\ fuse_in[1][1][1] = fuse_in[2][2][1]
    /\ fuse_in[1][1][2] < fuse_in[1][2][2]
    /\ Len(fuse_out) = 2
    /\ FLess(fuse_out[2][2], fuse_out[1][2])

\* C11: two documents of equal fused score stand in the output of rrf_fuse
\* in ascending order of docID, whatever the order they were first met in
C11_TiesByDocId ==
    fuse_pc = "return" =>
        \A i, j \in 1..Len(fuse_out) :
            (i < j /\ fuse_out[i][2] = fuse_out[j][2]) => fuse_out[i][1] < fuse_out[j][1]

\* ------------------------------------------------- one search request
Init == ReqIdle /\ FuseIdle /\ CorpusIdle

\* a POST /search with any form fields
Request ==
    /\ pc = "idle"
    /\ \E m \in MethodFields, image \in Uploads, tk \in TopKs : Receive(m, image, tk)

Next ==
    \/ Request
    \/ \E i \in 1..Len(tasks) : StartCall(i)
    \/ \E i \in 1..Len(tasks) : SearchSemantic(i)
    \/ \E i \in 1..Len(tasks) : SearchImage(i)
    \/ \E i \in 1..Len(tasks) : SearchFulltext(i)
    \/ \E i \in 1..Len(tasks) : SearchEntities(i)
    \/ Gathered
    \/ GatherRaises
    \/ Cancel

Spec == Init /\ [][Next]_vars

\* ------------------------------------------------- ingest and scoring
InitCorpus == ReqIdle /\ FuseIdle /\ CorpusIdle

\* one caller: it ingests and scores by turns
IngestCall == rd_pc = "idle" /\ \E texts \in Batches : InsertDocuments(texts)

ScoreCall == ins_pc \in Resting /\ \E text \in Texts : Score(text)

NextCorpus ==
    \/ IngestCall
    \/ NextText
    \/ AddTerm
    \/ CountDoc
    \/ AddLength
    \/ Vectors
    \/ CollInsert
    \/ CollInsertRaises
    \/ ScoreCall
    \/ ReadAvgdl
    \/ ScoreTerm
    \/ ScoreReturns
    \/ ScoreDone

SpecCorpus == InitCorpus /\ [][NextCorpus]_vars

\* two threads: one ingests while the other scores
SharedIngest ==
    \E texts \in Batches : total_docs + Len(texts) <= MaxShared /\ InsertDocuments(texts)

NextThreads ==
    \/ SharedIngest
    \/ NextText
    \/ AddTerm
    \/ CountDoc
    \/ AddLength
    \/ Vectors
    \/ CollInsert
    \/ CollInsertRaises
    \/ \E text \in Texts : Score(text)
    \/ ReadAvgdl
    \/ ScoreTerm
    \/ ScoreReturns
    \/ ScoreDone

SpecThreads == InitCorpus /\ [][NextThreads]_vars

\* ------------------------------------------------- the claims on the corpus
\* every term a text of Texts holds
AllTerms == UNION {Unique(_tokenize(t)) : t \in Texts}

\* the sum of f[x] over the x of S
RECURSIVE SumOf(_, _)
SumOf(f, S) ==
    IF S = {} THEN 0
    ELSE LET x == CHOOSE y \in S : TRUE IN f[x] + SumOf(f, S \ {x})

\* the thread in insert_documents is inside the round of one text
MidText == ins_pc \in {"terms", "count", "length"}

\* C12: each text that went through _update_corpus_stats added 1 to
\* total_docs (a text without tokens too), its number of tokens to
\* total_doc_len and 1 to doc_freq[t] for each distinct term t it holds,
\* however often t occurs in it; doc_freq has no other entry
C12_DocumentFrequency ==
    ~MidText =>
        /\ total_docs = SumOf(observed, Texts)
        /\ total_doc_len = SumOf([t \in Texts |-> observed[t] * Len(_tokenize(t))], Texts)
        /\ \A term \in AllTerms \cup DOMAIN doc_freq :
              Get(doc_freq, term, 0) =
                  SumOf([t \in Texts |->
                            IF term \in Unique(_tokenize(t)) THEN observed[t] ELSE 0], Texts)

C12_Witness ==
    /\ ins_pc \in Resting
    /\ observed = [t \in Texts |-> IF t \in {<<" ">>, <<"a", " ", "A">>} THEN 1 ELSE 0]
    /\ total_docs = 2
    /\ total_doc_len = 2
    /\ doc_freq = [term \in {<<"a">>} |-> 1]

\* how often text t stands in batch b
Occurrences(b, t) == Cardinality({i \in 1..Len(b) : b[i] = t})

\* _update_corpus_stats(texts) as one step, from text i on
RECURSIVE CountTerms(_, _)
CountTerms(dfs, terms) ==
    IF terms = {} THEN dfs
    ELSE LET term == CHOOSE t \in terms : TRUE
         IN  CountTerms(CountTerm(dfs, term), terms \ {term})

RECURSIVE ObserveFrom(_, _, _)
ObserveFrom(stats, texts, i) ==
    IF i > Len(texts) THEN stats
    ELSE LET tokens == _tokenize(texts[i])
         IN  ObserveFrom(
                 IF tokens = <<>>
                 THEN [stats EXCEPT !.total_docs = @ + 1]
                 ELSE [doc_freq |-> CountTerms(stats.doc_freq, Unique(tokens)),
                       total_docs |-> stats.total_docs + 1,
                       total_doc_len |-> stats.total_doc_len + DocLen(tokens)],
                 texts, i + 1)

\* what observing the batch once, from empty statistics, gives
ObservedOnce(texts) ==
    ObserveFrom([doc_freq |-> EmptyDict, total_docs |-> 0, total_doc_len |-> 0], texts, 1)

\* C13: once the texts of a batch have each been observed twice as often
\* as the batch holds them, starting from empty statistics, total_docs,
\* total_doc_len and every doc_freq entry are twice what observing the
\* batch once gives
C13_TwiceDoubles ==
    ins_pc \in Resting =>
        \A b \in Batches :
            observed = [t \in Texts |-> 2 * Occurrences(b, t)] =>
                LET once == ObservedOnce(b)
                IN  /\ total_docs = 2 * once.total_docs
                    /\ total_doc_len = 2 * once.total_doc_len
                    /\ DOMAIN doc_freq = DOMAIN once.doc_freq
                    /\ \A term \in DOMAIN doc_freq :
                          doc_freq[term] = 2 * once.doc_freq[term]

C13_Witness ==
    /\ ins_pc \in Resting
    /\ observed = [t \in Texts |->
                      IF t \in {<<"a", " ", "A">>, <<"a", " ", "b">>} THEN 2 ELSE 0]
    /\ total_docs = 4
    /\ total_doc_len = 8
    /\ doc_freq[<<"a">>] = 4
    /\ doc_freq[<<"b">>] = 2

\* scoring any text on the statistics as they stand does not raise, and
\* gives None when there is no document or the text has no token
ScoreSafe ==
    /\ \A text \in Texts :
          LET r == bm25_sparse_vector(text, doc_freq, total_docs, total_doc_len)
          IN  /\ r /= RaisedResult
              /\ (total_docs = 0 \/ _tokenize(text) = <<>>) => r = NoneResult
    /\ rd_out /= RaisedResult
    /\ (rd_pc = "returned" /\ (total_docs = 0 \/ _tokenize(rd_text) = <<>>))
          => rd_out = NoneResult

\* a step of bm25_sparse_vector, in either thread, leaves the statistics
\* alone, and the scoring inside insert_documents goes on to the insert
ScoreReadsOnly ==
    (rd_pc' /= rd_pc \/ ins_pc = "vectors") =>
        /\ statVars' = statVars
        /\ ins_pc = "vectors" => ins_pc' = "insert"

\* C14: in every reachable state of the statistics bm25_sparse_vector
\* returns None, and does not raise, when total_docs = 0 or the text has no
\* token; it never divides by zero otherwise, a corpus of empty documents
\* only (avgdl = 0) included; and it leaves the statistics unchanged
C14_Boundary == []ScoreSafe /\ [][ScoreReadsOnly]_vars

C14_Witness ==
    /\ rd_pc = "returned"
    /\ rd_text = <<"A">>
    /\ total_docs > 0
    /\ total_doc_len = 0
    /\ rd_out.kind = "dict"

\* C15: a call of bm25_sparse_vector that runs while insert_documents
\* updates the statistics never reads doc_freq[t] > total_docs
C15_NoTornRead == rd_read[1] <= rd_read[2]

\* C16: between calls of insert_documents, failed ones included, total_docs
\* is the number of documents that were inserted into the collection
C16_FailedInsertKeepsStats == ins_pc \in Resting => total_docs = coll_rows

\* ------------------------------------------------- the claims on a request
CountCalls(fn) == Cardinality({i \in 1..Len(tasks) : tasks[i].fn = fn})

SearchFn(m) ==
    CASE m = "fulltext" -> "search_fulltext"
      [] m = "semantic" -> "search_semantic"
      [] m = "image" -> "search_image"

\* C1: the handler issues one combined call and no individual call when two
\* or more of fulltext, semantic, image are requested, one individual call
\* when exactly one is, none when none is, and one graph call exactly when
\* kg is requested: never more than one vector call plus one graph call
C1_CallsIssued ==
    pc /= "idle" =>
        LET V == requested \cap VectorMethods
        IN  /\ CountCalls("multi_vector_search") = (IF Cardinality(V) > 1 THEN 1 ELSE 0)
            /\ \A m \in VectorMethods :
                  CountCalls(SearchFn(m)) = (IF V = {m} THEN 1 ELSE 0)
            /\ CountCalls("search_entities") = (IF "kg" \in requested THEN 1 ELSE 0)
            /\ Len(tasks) <= 2

\* methods=semantic,image: one combined call, no graph call
C1_Witness ==
    /\ pc = "awaiting"
    /\ requested = {"semantic", "image"}
    /\ Len(tasks) = 1
    /\ tasks[1].fn = "multi_vector_search"

\* a request the interface allows: topk >= 1 and known method names only
ValidRequest == topk >= 1 /\ requested \subseteq AllMethods

\* C2: when the combined call is used (here for a valid request), no
\* fulltext, semantic or image search runs for a modality that was not
\* requested
C2_OnlyRequestedSearched ==
    (ValidRequest /\ milvus_task /= 0) =>
        (executed \cap VectorMethods) \subseteq requested

\* C3: the image payload (an upload with content) of a request that does
\* not ask for image is passed to no backend call, and no image search runs
C3_PayloadIgnored ==
    (ValidRequest /\ Truthy(image_bytes) /\ "image" \notin requested) =>
        /\ \A i \in 1..Len(tasks) : tasks[i].img /= image_bytes
        /\ "image" \notin executed

\* C4: the keys of the response of a completed request are exactly the
\* requested methods among the five, and with none of them requested the
\* response is empty and no backend call is made
C4_ResponseKeys ==
    pc = "done" =>
        /\ DOMAIN resp = requested \cap AllMethods
        /\ (requested \cap AllMethods = {}) => (tasks = <<>> /\ executed = {})

\* the combined call returned fulltext, which was not requested
C4_Witness ==
    /\ pc = "done"
    /\ requested = {"semantic", "image", "bogus"}
    /\ milvus_task /= 0
    /\ tasks[milvus_task].res["fulltext"] /= <<>>
    /\ DOMAIN resp = {"semantic", "image"}

\* the list fusion takes for a modality
ListFor(m) == IF m \in requested THEN resp[m] ELSE <<>>

\* C5: fused is the rank fusion of the lists of fulltext, semantic, image,
\* kg in that order, each the list put in the response, or empty when the
\* modality was not requested; a document of no requested list is not in
\* fused, and fused alone gives an empty list without a backend call
C5_FusedOfResponse ==
    (pc = "done" /\ "fused" \in requested) =>
        /\ resp["fused"] = rrf_fuse(<<ListFor("fulltext"), ListFor("semantic"),
                                      ListFor("image"), ListFor("kg")>>, DefaultK)
        /\ \A j \in 1..Len(resp["fused"]) :
              \E m \in requested \cap {"fulltext", "semantic", "image", "kg"} :
                 \E r \in 1..Len(resp[m]) : resp[m][r][1] = resp["fused"][j][1]
        /\ (requested = {"fused"}) => (resp["fused"] = <<>> /\ tasks = <<>>)

\* fused is requested, the combined call found a document for fulltext only,
\* and fulltext was not requested
C5_Witness ==
    /\ pc = "done"
    /\ requested = {"semantic", "image", "fused"}
    /\ tasks[1].res["fulltext"] /= <<>>
    /\ tasks[1].res["semantic"] = <<>>
    /\ resp["fused"] = <<>>

\* C6: the response and the fused result are computed only when every call
\* of the request has returned, and a cancelled request stays cancelled and
\* gets no response and no fused result
C6_JoinBeforeFusion ==
    [][/\ (resp' /= resp) => (\A i \in 1..Len(tasks) : tasks[i].st = "returned")
       /\ (pc = "cancelled") => (pc' = "cancelled" /\ resp' = resp)
       /\ (pc' = "cancelled") => (resp' = EmptyDict)]_vars

\* two calls were gathered and fused
C6_Witness ==
    /\ pc = "done"
    /\ Len(tasks) = 2
    /\ "fused" \in DOMAIN resp
    /\ resp["fused"] /= <<>>

C8_InvalidRejected ==
    (pc /= "idle" /\ (topk <= 0 \/ ~(requested \subseteq AllMethods))) =>
        (tasks = <<>> /\ pc /= "done")

\* C9: once the request (here a valid one) is cancelled none of its backend
\* calls sends a search, returns or changes the shared connection state
C9_CancelStopsCalls ==
    [][(ValidRequest /\ pc = "cancelled") =>
          /\ executed' = executed
          /\ conn' = conn
          /\ \A i \in 1..Len(tasks) :
                tasks'[i].st = "returned" => tasks[i].st = "returned"]_vars

\* the call of the request that ran the function fn
CallOf(fn) == CHOOSE i \in 1..Len(tasks) : tasks[i].fn = fn

\* C17: whatever the order the calls completed in, the list under a modality
\* key is the list the call made for that modality returned (for the combined
\* call, its entry of that modality), and the kg key holds what the graph
\* call returned
C17_Attribution ==
    pc = "done" =>
        /\ \A m \in requested \cap VectorMethods :
              /\ resp[m] = (IF CountCalls("multi_vector_search") = 1
                            THEN tasks[CallOf("multi_vector_search")].res[m]
                            ELSE tasks[CallOf(SearchFn(m))].res)
              /\ \A r \in 1..Len(resp[m]) : resp[m][r][3] = m
        /\ "kg" \in requested =>
              /\ resp["kg"] = tasks[CallOf("search_entities")].res
              /\ \A r \in 1..Len(resp["kg"]) : resp["kg"][r][3] = "kg"

\* one vector call and the graph call, both with hits
C17_Witness ==
    /\ pc = "done"
    /\ requested = {"semantic", "kg"}
    /\ Len(resp["semantic"]) = 1 /\ resp["semantic"][1][3] = "semantic"
    /\ Len(resp["kg"]) = 1 /\ resp["kg"][1][3] = "kg"

====
